---- MODULE Spec2Model ----
(***************************************************************************)
(* A model of sofa's Client (src/src/client.rs): connection configuration, *)
(* request-URI construction and the database lifecycle calls.              *)
(*                                                                         *)
(* Strings are sequences of tokens.  A token is the scheme prefix          *)
(* "http://", the path separator "/", or a run of unreserved characters    *)
(* (a letter run such as "h", "a", "_all_dbs").  The alphabet holds no     *)
(* "?", "#", "%", ":" , "\" or dot segment, so query parsing, percent      *)
(* encoding and dot-segment removal never come into play.                  *)
(***************************************************************************)
EXTENDS Integers, Sequences, FiniteSets

VARIABLES client, op, arg, result, exchanges, held

vars == <<client, op, arg, result, exchanges, held>>

---------------------------------------------------------------------------
(* Bounds and program constants                                            *)

\* Longest base-URI path and request path (in tokens) of the path study.
MaxLen == 3

\* Largest timeout a caller sets (the type is u8; no arithmetic is done on it).
MaxTimeout == 5

\* Client::new builds the transport with timeout 4 and stores _timeout: 4.
DefaultTimeout == 4

\* StatusCode::Ok
StatusOk == 200

---------------------------------------------------------------------------
(* Result<T, failure::Error>                                               *)

Ok(v) == [ok |-> TRUE, err |-> "", msg |-> "", val |-> v]

Err(kind, m) == [ok |-> FALSE, err |-> kind, msg |-> m, val |-> <<>>]

\* Option<T>: <<>> is None, <<x>> is Some(x).
None == <<>>

Some(x) == <<x>>

unwrap_or(o, d) == IF o = <<>> THEN d ELSE o[1]

---------------------------------------------------------------------------
(* url::Url over token strings                                             *)

Scheme == "http://"

Slash == "/"

\* The input without its leading "/" tokens (Input::count_matching).
RECURSIVE DropSlashes(_)
DropSlashes(s) ==
    IF s # <<>> /\ s[1] = Slash THEN DropSlashes(Tail(s)) ELSE s

\* The tokens of s before its first "/".
RECURSIVE TakeHost(_)
TakeHost(s) ==
    IF s = <<>> \/ s[1] = Slash THEN <<>> ELSE <<s[1]>> \o TakeHost(Tail(s))

\* The path segments of s: the runs between "/" tokens; the empty input is
\* one empty segment.
RECURSIVE Split(_)
Split(s) ==
    LET h == TakeHost(s)
    IN  IF Len(h) = Len(s) THEN <<s>>
        ELSE <<h>> \o Split(SubSeq(s, Len(h) + 2, Len(s)))

\* Host and path of what follows "scheme://" or a "//" reference: every
\* leading slash is skipped, an empty host is an error for http.
after_double_slash(s) ==
    LET rest == DropSlashes(s)
        host == TakeHost(rest)
        tail == SubSeq(rest, Len(host) + 1, Len(rest))
    IN  IF host = <<>> THEN Err("url::ParseError", "EmptyHost")
        ELSE Ok([host |-> host,
                 path |-> Split(IF tail = <<>> THEN <<>> ELSE Tail(tail))])

\* Url::parse
Url_parse(s) ==
    IF s = <<>> \/ s[1] # Scheme
    THEN Err("url::ParseError", "RelativeUrlWithoutBase")
    ELSE after_double_slash(Tail(s))

\* The base path up to and including its last "/".
Shorten(path) == IF path = <<>> THEN <<>> ELSE SubSeq(path, 1, Len(path) - 1)

\* Url::join: reference resolution against a parsed base.
Url_join(base, ref) ==
    IF ref = <<>> THEN Ok(base)
    ELSE IF ref[1] = Scheme THEN Url_parse(ref)
    ELSE IF ref[1] # Slash
         THEN Ok([host |-> base.host, path |-> Shorten(base.path) \o Split(ref)])
    ELSE IF Len(ref) >= 2 /\ ref[2] = Slash THEN after_double_slash(ref)
    ELSE Ok([host |-> base.host, path |-> Split(Tail(ref))])

RECURSIVE Flat(_)
Flat(path) ==
    IF path = <<>> THEN <<>> ELSE <<Slash>> \o path[1] \o Flat(Tail(path))

\* Url::into_string
Url_into_string(u) == <<Scheme>> \o u.host \o Flat(u.path)

---------------------------------------------------------------------------
(* Client                                                                  *)

\* reqwest::Client::builder().gzip(g).timeout(t).build(); buildOk is whether
\* the platform lets the transport be built.
ClientBuilder(g, t, buildOk) ==
    IF buildOk THEN Ok([gzip |-> g, timeout |-> t])
    ELSE Err("reqwest::Error", "build")

\* Client::new with a validated base URI.
new_validating(uri, buildOk) ==
    LET b == ClientBuilder(TRUE, DefaultTimeout, buildOk)
    IN  IF ~b.ok THEN Err(b.err, b.msg)
        ELSE IF ~Url_parse(uri).ok THEN Err("url::ParseError", Url_parse(uri).msg)
        ELSE Ok([_client |-> b.val, uri |-> uri, _gzip |-> TRUE,
                 _timeout |-> DefaultTimeout, db_prefix |-> <<>>])

\* Client::new
new(uri, buildOk) ==
    LET b == ClientBuilder(TRUE, DefaultTimeout, buildOk)
    IN  IF ~b.ok THEN Err(b.err, b.msg)
        ELSE Ok([_client |-> b.val, uri |-> uri, _gzip |-> TRUE,
                 _timeout |-> DefaultTimeout, db_prefix |-> <<>>])

\* Client::create_client rebuilding with the default timeout.
create_client_defaults(c, buildOk) == ClientBuilder(c._gzip, DefaultTimeout, buildOk)

\* Client::create_client
create_client(c, buildOk) == ClientBuilder(c._gzip, c._timeout, buildOk)

\* Client::set_uri
set_uri(c, uri) == [c EXCEPT !.uri = uri]

\* Client::set_prefix
set_prefix(c, prefix) == [c EXCEPT !.db_prefix = prefix]

\* Client::gzip: the field is stored before the rebuild is attempted.
gzip(c, enabled, buildOk) ==
    LET c1 == [c EXCEPT !._gzip = enabled]
        b  == create_client(c1, buildOk)
    IN  IF ~b.ok THEN [client |-> c1, result |-> Err(b.err, b.msg)]
        ELSE [client |-> [c1 EXCEPT !._client = b.val], result |-> Ok(<<>>)]

\* Client::timeout
timeout(c, to, buildOk) ==
    LET c1 == [c EXCEPT !._timeout = to]
        b  == create_client(c1, buildOk)
    IN  IF ~b.ok THEN [client |-> c1, result |-> Err(b.err, b.msg)]
        ELSE [client |-> [c1 EXCEPT !._client = b.val], result |-> Ok(<<>>)]

\* Client::build_dbname
build_dbname(c, dbname) == c.db_prefix \o dbname

\* Client::create_path joining by plain concatenation.
create_path_concat(c, path) ==
    IF ~Url_parse(c.uri).ok THEN Err("url::ParseError", Url_parse(c.uri).msg)
    ELSE Ok(c.uri \o path)

\* Client::create_path with args = None.
create_path(c, path) ==
    LET b == Url_parse(c.uri)
    IN  IF ~b.ok THEN Err(b.err, b.msg)
        ELSE LET j == Url_join(b.val, path)
             IN  IF ~j.ok THEN Err(j.err, j.msg)
                 ELSE Ok(Url_into_string(j.val))

---------------------------------------------------------------------------
(* Requests and server replies                                             *)

ContentTypeJson == <<"Content-Type", <<"application/json">>>>

Referer(uri) == <<"Referer", uri>>

\* A request as built: method, resolved URI, headers, and the transport
\* (the reqwest::Client, with the settings it was built with) that carries it.
Request(method, uri, headers, transport) ==
    [method |-> method, uri |-> uri, headers |-> headers, transport |-> transport]

\* send() failed: no response was received.
NoReply ==
    [fail |-> TRUE, status |-> 0, decodes |-> FALSE,
     ok |-> None, error |-> None, reason |-> None]

\* A response: its status and its body.  decodes says whether the body is JSON
\* of the shape the caller decodes; ok, error, reason are the members of the
\* JSON object (None when the member is absent).
Reply(status, decodes, o, e, r) ==
    [fail |-> FALSE, status |-> status, decodes |-> decodes,
     ok |-> o, error |-> e, reason |-> r]

\* One request issued and what came back for it.
Exchange(request, reply) == [request |-> request, reply |-> reply]

\* serde_json::from_reader::<CouchResponse>
from_reader(reply) ==
    IF reply.decodes
    THEN Ok([ok |-> reply.ok, error |-> reply.error, reason |-> reply.reason])
    ELSE Err("serde_json::Error", "decode")

\* self.clone() handing out the Client itself, not a copy: what it yields
\* denotes the caller's Client, whatever that holds later.
Client_clone_shared(c) == [own |-> FALSE, obj |-> <<>>]

\* self.clone() (#[derive(Clone)] on Client): a Client of its own, holding the
\* field values self has at the call.  The transport is a shared handle to
\* settings fixed when it was built; gzip and timeout replace the field, they
\* do not alter what was built.
Client_clone(c) == [own |-> TRUE, obj |-> c]

\* The Client that r denotes when the caller's Client is self.
Deref(r, self) == IF r.own THEN r.obj ELSE self

\* Database::new: the handle keeps the name and the Client it is given.
Database_new(name, c) == [name |-> name, _client |-> c]

\* Client::req without the Referer header.
req_no_referer(c, method, path) ==
    LET uri == create_path(c, path)
    IN  IF ~uri.ok THEN Err(uri.err, uri.msg)
        ELSE Ok(Request(method, uri.val, {ContentTypeJson}, c._client))

\* Client::req (opts = None)
req(c, method, path) ==
    LET uri == create_path(c, path)
    IN  IF ~uri.ok THEN Err(uri.err, uri.msg)
        ELSE Ok(Request(method, uri.val,
                        {Referer(uri.val), ContentTypeJson}, c._client))

\* Client::list_dbs
list_dbs(c, reply) ==
    LET r == req(c, "GET", <<Slash, "_all_dbs">>)
    IN  IF ~r.ok THEN [result |-> Err(r.err, r.msg), sent |-> <<>>]
        ELSE IF reply.fail
        THEN [result |-> Err("reqwest::Error", "send"),
              sent |-> <<Exchange(r.val, reply)>>]
        ELSE IF ~reply.decodes
        THEN [result |-> Err("reqwest::Error", "json"),
              sent |-> <<Exchange(r.val, reply)>>]
        ELSE [result |-> Ok(<<>>), sent |-> <<Exchange(r.val, reply)>>]

\* Client::make_db taking the message from the reason member.
make_db_reason(c, dbname, put) ==
    LET name == build_dbname(c, dbname)
        db_  == Database_new(name, Client_clone(c))
        path == create_path(c, name)
        preq == Request("PUT", path.val, {ContentTypeJson}, c._client)
        s    == from_reader(put)
    IN  IF ~path.ok THEN [result |-> Err(path.err, path.msg), sent |-> <<>>]
        ELSE IF put.fail
        THEN [result |-> Err("reqwest::Error", "send"),
              sent |-> <<Exchange(preq, put)>>]
        ELSE IF ~s.ok
        THEN [result |-> Err(s.err, s.msg), sent |-> <<Exchange(preq, put)>>]
        ELSE IF s.val.ok = Some(TRUE)
        THEN [result |-> Ok(db_), sent |-> <<Exchange(preq, put)>>]
        ELSE [result |-> Err("SofaError",
                             unwrap_or(s.val.reason, "unspecified error")),
              sent |-> <<Exchange(preq, put)>>]

\* Client::make_db
make_db(c, dbname, put) ==
    LET name == build_dbname(c, dbname)
        db_  == Database_new(name, Client_clone(c))
        path == create_path(c, name)
        preq == Request("PUT", path.val, {ContentTypeJson}, c._client)
        s    == from_reader(put)
    IN  IF ~path.ok THEN [result |-> Err(path.err, path.msg), sent |-> <<>>]
        ELSE IF put.fail
        THEN [result |-> Err("reqwest::Error", "send"),
              sent |-> <<Exchange(preq, put)>>]
        ELSE IF ~s.ok
        THEN [result |-> Err(s.err, s.msg), sent |-> <<Exchange(preq, put)>>]
        ELSE IF s.val.ok = Some(TRUE)
        THEN [result |-> Ok(db_), sent |-> <<Exchange(preq, put)>>]
        ELSE [result |-> Err("SofaError",
                             unwrap_or(s.val.error, "unspecified error")),
              sent |-> <<Exchange(preq, put)>>]

\* Client::db creating the database whatever the HEAD status is.
db_always_creates(c, dbname, head, put) ==
    LET name == build_dbname(c, dbname)
        path == create_path(c, name)
        hreq == Request("HEAD", path.val, {ContentTypeJson}, c._client)
        m    == make_db(c, dbname, put)
    IN  IF ~path.ok THEN [result |-> Err(path.err, path.msg), sent |-> <<>>]
        ELSE IF head.fail
        THEN [result |-> Err("reqwest::Error", "send"),
              sent |-> <<Exchange(hreq, head)>>]
        ELSE [result |-> m.result, sent |-> <<Exchange(hreq, head)>> \o m.sent]

\* Client::db passing the already prefixed name on to make_db.
db_prefix_twice(c, dbname, head, put) ==
    LET name == build_dbname(c, dbname)
        db_  == Database_new(name, Client_clone(c))
        path == create_path(c, name)
        hreq == Request("HEAD", path.val, {ContentTypeJson}, c._client)
        m    == make_db(c, name, put)
    IN  IF ~path.ok THEN [result |-> Err(path.err, path.msg), sent |-> <<>>]
        ELSE IF head.fail
        THEN [result |-> Err("reqwest::Error", "send"),
              sent |-> <<Exchange(hreq, head)>>]
        ELSE IF head.status = StatusOk
        THEN [result |-> Ok(db_), sent |-> <<Exchange(hreq, head)>>]
        ELSE [result |-> m.result, sent |-> <<Exchange(hreq, head)>> \o m.sent]

\* Client::db treating a failed send like a non-200 status.
db_create_on_failure(c, dbname, head, put) ==
    LET name == build_dbname(c, dbname)
        db_  == Database_new(name, Client_clone(c))
        path == create_path(c, name)
        hreq == Request("HEAD", path.val, {ContentTypeJson}, c._client)
        m    == make_db(c, dbname, put)
    IN  IF ~path.ok THEN [result |-> Err(path.err, path.msg), sent |-> <<>>]
        ELSE IF ~head.fail /\ head.status = StatusOk
        THEN [result |-> Ok(db_), sent |-> <<Exchange(hreq, head)>>]
        ELSE [result |-> m.result, sent |-> <<Exchange(hreq, head)>> \o m.sent]

\* Client::db
db(c, dbname, head, put) ==
    LET name == build_dbname(c, dbname)
        db_  == Database_new(name, Client_clone(c))
        path == create_path(c, name)
        hreq == Request("HEAD", path.val, {ContentTypeJson}, c._client)
        m    == make_db(c, dbname, put)
    IN  IF ~path.ok THEN [result |-> Err(path.err, path.msg), sent |-> <<>>]
        ELSE IF head.fail
        THEN [result |-> Err("reqwest::Error", "send"),
              sent |-> <<Exchange(hreq, head)>>]
        ELSE IF head.status = StatusOk
        THEN [result |-> Ok(db_), sent |-> <<Exchange(hreq, head)>>]
        ELSE [result |-> m.result, sent |-> <<Exchange(hreq, head)>> \o m.sent]

\* Client::destroy_db answering true when ok is absent.
destroy_db_default_true(c, dbname, del) ==
    LET path == create_path(c, build_dbname(c, dbname))
        dreq == Request("DELETE", path.val, {ContentTypeJson}, c._client)
        s    == from_reader(del)
    IN  IF ~path.ok THEN [result |-> Err(path.err, path.msg), sent |-> <<>>]
        ELSE IF del.fail
        THEN [result |-> Err("reqwest::Error", "send"),
              sent |-> <<Exchange(dreq, del)>>]
        ELSE IF ~s.ok
        THEN [result |-> Err(s.err, s.msg), sent |-> <<Exchange(dreq, del)>>]
        ELSE [result |-> Ok(unwrap_or(s.val.ok, TRUE)),
              sent |-> <<Exchange(dreq, del)>>]

\* Client::destroy_db
destroy_db(c, dbname, del) ==
    LET path == create_path(c, build_dbname(c, dbname))
        dreq == Request("DELETE", path.val, {ContentTypeJson}, c._client)
        s    == from_reader(del)
    IN  IF ~path.ok THEN [result |-> Err(path.err, path.msg), sent |-> <<>>]
        ELSE IF del.fail
        THEN [result |-> Err("reqwest::Error", "send"),
              sent |-> <<Exchange(dreq, del)>>]
        ELSE IF ~s.ok
        THEN [result |-> Err(s.err, s.msg), sent |-> <<Exchange(dreq, del)>>]
        ELSE [result |-> Ok(unwrap_or(s.val.ok, FALSE)),
              sent |-> <<Exchange(dreq, del)>>]

\* Client::check_status: the transport parses self.uri itself; an unparseable
\* URI makes send() fail before anything is sent.
check_status(c, reply) ==
    LET u    == Url_parse(c.uri)
        greq == Request("GET", Url_into_string(u.val), {ContentTypeJson}, c._client)
    IN  IF ~u.ok THEN [result |-> Err("reqwest::Error", "url"), sent |-> <<>>]
        ELSE IF reply.fail
        THEN [result |-> Err("reqwest::Error", "send"),
              sent |-> <<Exchange(greq, reply)>>]
        ELSE IF ~reply.decodes
        THEN [result |-> Err("serde_json::Error", "decode"),
              sent |-> <<Exchange(greq, reply)>>]
        ELSE [result |-> Ok(<<>>), sent |-> <<Exchange(greq, reply)>>]

---------------------------------------------------------------------------
(* Inputs                                                                  *)

\* Base URIs: authority only, with a trailing slash, with a path, with a path
\* and a trailing slash, and a string that is no absolute URI.
Uris ==
    { <<Scheme, "h">>, <<Scheme, "h", Slash>>, <<Scheme, "h", Slash, "a">>,
      <<Scheme, "h", Slash, "a", Slash>>, <<"h">> }

Prefixes == { <<>>, <<"p">> }

\* A plain name, and "//", which no base URI can be joined with unless a
\* prefix precedes it.
DbNames == { <<"x">>, <<Slash, Slash>> }

Timeouts == DefaultTimeout .. MaxTimeout

Builds == BOOLEAN

Methods == { "GET", "POST", "PUT", "HEAD", "DELETE" }

Paths == { <<"x">>, <<Slash, "_all_dbs">> }

\* A response without a decodable body.
Bare(status) == Reply(status, FALSE, None, None, None)

\* The envelopes {ok?, error?, reason?} a response body may hold.
Envelopes(statuses) ==
    { Reply(st, TRUE, o, e, r) :
        st \in statuses, o \in {None, Some(TRUE), Some(FALSE)},
        e \in {None, Some("conflict")}, r \in {None, Some("file_exists")} }

HeadReplies == {NoReply} \cup {Bare(st) : st \in {StatusOk, 401, 404, 500}}

PutReplies == {NoReply, Bare(500)} \cup Envelopes({201})

DeleteReplies ==
    {NoReply} \cup {Bare(st) : st \in {StatusOk, 404}} \cup Envelopes({StatusOk, 404})

GetReplies == {NoReply, Bare(StatusOk), Reply(StatusOk, TRUE, None, None, None)}

\* Every token string of at most n tokens.
SeqsUpTo(S, n) == UNION {[1..k -> S] : k \in 0..n}

PathTokens == {Slash, "a", "b"}

\* The request paths of the path study.
PathRefs == SeqsUpTo(PathTokens, MaxLen)

\* The base URIs of the path study: "http://h" followed by nothing or by a
\* path, and two strings that are no absolute URI.
PathBases ==
    { <<Scheme, "h">> \o p : p \in {q \in PathRefs : q = <<>> \/ q[1] = Slash} }
        \cup { <<"h">>, <<Scheme>> }

\* The inputs of the transport and handle studies: a server that answers.
HandleUris == { <<Scheme, "h">>, <<Scheme, "g", Slash>> }

HandleNames == { <<"x">> }

HandleHeads == { Bare(StatusOk), Bare(404) }

HandlePuts ==
    { Reply(201, TRUE, Some(TRUE), None, None),
      Reply(412, TRUE, None, Some("conflict"), None) }

---------------------------------------------------------------------------
(* The state machine                                                       *)

\* A Client exists: construction did not fail.
Alive == ~(op = "new" /\ ~result.ok)

\* let client = Client::new(uri)
InitWith(uris, builds) ==
    \E u \in uris, b \in builds :
        LET r == new(u, b)
        IN  /\ client = r.val
            /\ op = "new"
            /\ arg = u
            /\ result = [r EXCEPT !.val = <<>>]
            /\ exchanges = <<>>
            /\ held = <<>>

Init == InitWith(Uris, Builds)

SetUri(uris) ==
    /\ Alive
    /\ \E u \in uris :
        /\ client' = set_uri(client, u)
        /\ op' = "set_uri"
        /\ arg' = u
    /\ result' = Ok(<<>>)
    /\ exchanges' = <<>>
    /\ UNCHANGED held

SetPrefix(prefixes) ==
    /\ Alive
    /\ \E p \in prefixes :
        /\ client' = set_prefix(client, p)
        /\ op' = "set_prefix"
        /\ arg' = p
    /\ result' = Ok(<<>>)
    /\ exchanges' = <<>>
    /\ UNCHANGED held

Gzip(builds) ==
    /\ Alive
    /\ \E e \in BOOLEAN, b \in builds :
        LET o == gzip(client, e, b)
        IN  /\ client' = o.client
            /\ op' = "gzip"
            /\ arg' = e
            /\ result' = o.result
    /\ exchanges' = <<>>
    /\ UNCHANGED held

Timeout(timeouts, builds) ==
    /\ Alive
    /\ \E t \in timeouts, b \in builds :
        LET o == timeout(client, t, b)
        IN  /\ client' = o.client
            /\ op' = "timeout"
            /\ arg' = t
            /\ result' = o.result
    /\ exchanges' = <<>>
    /\ UNCHANGED held

ListDbs(replies) ==
    /\ Alive
    /\ \E g \in replies :
        LET o == list_dbs(client, g)
        IN  /\ op' = "list_dbs"
            /\ arg' = <<>>
            /\ result' = o.result
            /\ exchanges' = o.sent
    /\ UNCHANGED <<client, held>>

\* The server answers a PUT only after a HEAD that it answered.
Db(names, heads, puts) ==
    /\ Alive
    /\ \E n \in names, h \in heads :
        \E p \in IF h.fail THEN {NoReply} ELSE puts :
        LET o == db(client, n, h, p)
        IN  /\ op' = "db"
            /\ arg' = n
            /\ result' = o.result
            /\ exchanges' = o.sent
    /\ UNCHANGED <<client, held>>

MakeDb(names, puts) ==
    /\ Alive
    /\ \E n \in names, p \in puts :
        LET o == make_db(client, n, p)
        IN  /\ op' = "make_db"
            /\ arg' = n
            /\ result' = o.result
            /\ exchanges' = o.sent
    /\ UNCHANGED <<client, held>>

DestroyDb(names, dels) ==
    /\ Alive
    /\ \E n \in names, d \in dels :
        LET o == destroy_db(client, n, d)
        IN  /\ op' = "destroy_db"
            /\ arg' = n
            /\ result' = o.result
            /\ exchanges' = o.sent
    /\ UNCHANGED <<client, held>>

CheckStatus(replies) ==
    /\ Alive
    /\ \E g \in replies :
        LET o == check_status(client, g)
        IN  /\ op' = "check_status"
            /\ arg' = <<>>
            /\ result' = o.result
            /\ exchanges' = o.sent
    /\ UNCHANGED <<client, held>>

\* Client::get, post, put, head, delete: the request is built, not sent.
Req(methods, paths) ==
    /\ Alive
    /\ \E m \in methods, p \in paths :
        /\ op' = "req"
        /\ arg' = p
        /\ result' = req(client, m, p)
    /\ exchanges' = <<>>
    /\ UNCHANGED <<client, held>>

\* The caller keeps the handle a call returned.
Keep ==
    /\ op \in {"db", "make_db"}
    /\ result.ok
    /\ held # <<result.val>>
    /\ held' = <<result.val>>
    /\ UNCHANGED <<client, op, arg, result, exchanges>>

\* Every operation of the client.  Here the transport is always rebuilt;
\* rebuilds that fail are the subject of SpecTransport.
Next ==
    \/ SetUri(Uris)
    \/ SetPrefix(Prefixes)
    \/ Gzip({TRUE})
    \/ Timeout(Timeouts, {TRUE})
    \/ ListDbs(GetReplies)
    \/ Db(DbNames, HeadReplies, PutReplies)
    \/ MakeDb(DbNames, PutReplies)
    \/ DestroyDb(DbNames, DeleteReplies)
    \/ CheckStatus(GetReplies)
    \/ Req(Methods, Paths)

Spec == Init /\ [][Next]_vars

\* The path study: one client per base URI, requests built for every path.
InitPath == InitWith(PathBases, {TRUE})

NextPath == Req({"GET"}, PathRefs)

SpecPath == InitPath /\ [][NextPath]_vars

\* The transport study: timeout and compression changes, rebuilds that may
\* fail, and the requests sent in between.
InitTransport == InitWith({<<Scheme, "h">>}, Builds)

NextTransport ==
    \/ Gzip(Builds)
    \/ Timeout(Timeouts, Builds)
    \/ ListDbs(GetReplies)
    \/ Db(HandleNames, HandleHeads, HandlePuts)
    \/ MakeDb(HandleNames, HandlePuts)
    \/ DestroyDb(HandleNames, HandlePuts)
    \/ CheckStatus(GetReplies)

SpecTransport == InitTransport /\ [][NextTransport]_vars

\* The handle study: a caller that keeps handles while it reconfigures the
\* client, against a server that answers.
InitHandle == InitWith(HandleUris, {TRUE})

NextHandle ==
    \/ SetUri(HandleUris)
    \/ SetPrefix(Prefixes)
    \/ Gzip({TRUE})
    \/ Timeout(Timeouts, {TRUE})
    \/ Db(HandleNames, HandleHeads, HandlePuts)
    \/ MakeDb(HandleNames, HandlePuts)
    \/ Keep

SpecHandle == InitHandle /\ [][NextHandle]_vars

---------------------------------------------------------------------------
(* Properties                                                              *)

\* The headers of the i-th request of the last call, its reply, and so on.
Req_(i) == exchanges[i].request

Rep_(i) == exchanges[i].reply

Puts == {i \in DOMAIN exchanges : Req_(i).method = "PUT"}

HasHeader(r, name) == \E h \in r.headers : h[1] = name

\* The HEAD of the last db call was answered with this property.
HeadAnswered(P(_)) ==
    /\ op = "db"
    /\ exchanges # <<>>
    /\ Req_(1).method = "HEAD"
    /\ ~Rep_(1).fail
    /\ P(Rep_(1).status)

Is200(st) == st = StatusOk

IsNot200(st) == st # StatusOk

\* A base URI made of scheme and authority only, with or without the slash.
IsRootBase(u) ==
    /\ Len(u) \in {2, 3}
    /\ u[1] = Scheme
    /\ u[2] \notin {Scheme, Slash}
    /\ Len(u) = 3 => u[3] = Slash

NoSlash(s) == \A i \in DOMAIN s : s[i] # Slash

StripLead(p) == IF p # <<>> /\ p[1] = Slash THEN Tail(p) ELSE p

\* C1: when the HEAD of open_database (Client::db) is answered 200, the call
\* returns the handle for the prefixed name and issues no PUT.
C1_OpenExistingIssuesNoPut ==
    HeadAnswered(Is200) =>
        /\ result.ok
        /\ result.val.name = client.db_prefix \o arg
        /\ Puts = {}
        /\ Len(exchanges) = 1

C1_Witness ==
    /\ HeadAnswered(Is200)
    /\ result.ok
    /\ client.db_prefix # <<>>

\* C2: when the HEAD of open_database is answered with any status but 200,
\* exactly one PUT follows it, to the URI the HEAD went to, which holds the
\* prefix once: under an authority-only base and slash-free names it is
\* base "/" prefix name.
C2_OpenMissingPutsOnceSamePath ==
    HeadAnswered(IsNot200) =>
        /\ Len(exchanges) = 2
        /\ Puts = {2}
        /\ Req_(2).uri = Req_(1).uri
        /\ (IsRootBase(client.uri) /\ NoSlash(client.db_prefix \o arg)) =>
              Req_(2).uri = <<Scheme, client.uri[2], Slash>>
                                \o client.db_prefix \o arg

C2_Witness ==
    /\ HeadAnswered(IsNot200)
    /\ Rep_(1).status = 500
    /\ client.db_prefix # <<>>
    /\ Len(exchanges) = 2
    /\ IsRootBase(client.uri)

\* The PUT of the last create_database was answered with an envelope whose
\* ok member is not true.
CreateRefused ==
    /\ op = "make_db"
    /\ exchanges # <<>>
    /\ ~Rep_(1).fail
    /\ Rep_(1).decodes
    /\ Rep_(1).ok # Some(TRUE)

\* C3 as claimed: a refused create_database fails with ServerError carrying the
\* server's reason, and "unspecified error" only when the server supplied
\* neither error nor reason.
C3_Original ==
    CreateRefused =>
        /\ ~result.ok
        /\ result.err = "SofaError"
        /\ Rep_(1).reason # None => result.msg = Rep_(1).reason[1]
        /\ result.msg = "unspecified error" =>
               (Rep_(1).error = None /\ Rep_(1).reason = None)

\* C3: a refused create_database (Client::make_db) fails with ServerError
\* carrying the envelope's error member, and "unspecified error" whenever
\* that member is absent, whatever the reason member holds.
C3_CreateRefusedReportsErrorMember ==
    CreateRefused =>
        /\ ~result.ok
        /\ result.err = "SofaError"
        /\ result.msg = IF Rep_(1).error = None THEN "unspecified error"
                        ELSE Rep_(1).error[1]

C3_Witness ==
    /\ CreateRefused
    /\ Rep_(1).ok = Some(FALSE)
    /\ Rep_(1).error = None
    /\ Rep_(1).reason = Some("file_exists")
    /\ result.msg = "unspecified error"

\* The calls that send a request.
RequestOps == {"list_dbs", "db", "make_db", "destroy_db", "check_status"}

\* C4 as claimed: construction with a base URI that does not parse fails with
\* a configuration (URL parse) error.
C4_Original ==
    (op = "new" /\ ~Url_parse(arg).ok) =>
        (~result.ok /\ result.err = "url::ParseError")

\* C4: construction (Client::new) does not look at the base URI: it fails only
\* when the transport cannot be built, and otherwise stores the string as
\* given; with a base URI that does not parse, every call that would send a
\* request fails and sends nothing.
C4_ConstructionStoresUriUnchecked ==
    /\ op = "new" =>
          /\ result.ok => (client.uri = arg /\ client.db_prefix = <<>>)
          /\ ~result.ok => result.err = "reqwest::Error"
    /\ (Alive /\ op \in RequestOps /\ ~Url_parse(client.uri).ok) =>
          (~result.ok /\ exchanges = <<>>)

C4_Witness ==
    /\ op = "new"
    /\ result.ok
    /\ ~Url_parse(client.uri).ok

\* C5 as claimed: every request sent carries Content-Type: application/json
\* and a Referer equal to its URI.
C5_Original ==
    \A i \in DOMAIN exchanges :
        /\ ContentTypeJson \in Req_(i).headers
        /\ Referer(Req_(i).uri) \in Req_(i).headers

\* C5: every request sent carries Content-Type: application/json; the requests
\* built by Client::req (the GET of list_dbs, and what get, post, put, head and
\* delete build) also carry a Referer equal to their URI; the HEAD of db, the
\* PUT of make_db, the DELETE of destroy_db and the GET of check_status carry
\* no Referer.
C5_ContentTypeAlwaysRefererOnlyViaReq ==
    /\ \A i \in DOMAIN exchanges :
          /\ ContentTypeJson \in Req_(i).headers
          /\ op = "list_dbs" => Referer(Req_(i).uri) \in Req_(i).headers
          /\ op \in {"db", "make_db", "destroy_db", "check_status"} =>
                ~HasHeader(Req_(i), "Referer")
    /\ (op = "req" /\ result.ok) =>
          result.val.headers = {ContentTypeJson, Referer(result.val.uri)}

C5_Witness ==
    /\ op = "db"
    /\ Len(exchanges) = 2
    /\ ~HasHeader(Req_(1), "Referer")
    /\ ~HasHeader(Req_(2), "Referer")

\* The URI Client::req resolves for a base URI and a path.
Resolved(uri, path) == req(set_uri(client, uri), "GET", path)

\* C6 as claimed: a trailing slash on the base URI and a leading slash on the
\* path make no difference to the resolved URI.
C6_Original ==
    (/\ op = "req"
     /\ Url_parse(client.uri).ok
     /\ client.uri[Len(client.uri)] # Slash
     /\ arg # <<>>
     /\ arg[1] # Slash) =>
        \A u \in {client.uri, client.uri \o <<Slash>>},
           p \in {arg, <<Slash>> \o arg} :
            /\ Resolved(u, p).ok = result.ok
            /\ result.ok => Resolved(u, p).val.uri = result.val.uri

\* A base URI "http://" host, alone or followed by a path.
IsPlainBase(u) ==
    /\ Len(u) >= 2
    /\ u[1] = Scheme
    /\ u[2] \notin {Scheme, Slash}
    /\ Len(u) >= 3 => u[3] = Slash

\* s up to and including its last "/".
RECURSIVE UpToLastSlash(_)
UpToLastSlash(s) ==
    IF s = <<>> \/ s[Len(s)] = Slash THEN s
    ELSE UpToLastSlash(SubSeq(s, 1, Len(s) - 1))

\* The base URI without its last path segment; "http://" host "/" when it has
\* no path.
Dir(u) == IF Len(u) = 2 THEN u \o <<Slash>> ELSE UpToLastSlash(u)

\* C6: under a base URI of scheme and authority only, with or without its
\* trailing slash, a path of plain segments that has no leading slash, or
\* exactly one, resolves to base "/" path.  Under a base URI with a path of its
\* own, a path without a leading slash replaces the base's last segment when
\* the base has no trailing slash and is appended when it has one, and a path
\* with one leading slash discards the base's path.
C6_RootBaseJoinsPath ==
    /\ (/\ op = "req"
        /\ IsRootBase(client.uri)
        /\ (StripLead(arg) = <<>> \/ StripLead(arg)[1] # Slash)) =>
           /\ result.ok
           /\ result.val.uri = <<Scheme, client.uri[2], Slash>> \o StripLead(arg)
    /\ (/\ op = "req"
        /\ IsPlainBase(client.uri)
        /\ arg # <<>>
        /\ arg[1] # Slash) =>
           /\ result.ok
           /\ result.val.uri = Dir(client.uri) \o arg
           /\ client.uri[Len(client.uri)] = Slash =>
                 result.val.uri = client.uri \o arg
    /\ (/\ op = "req"
        /\ IsPlainBase(client.uri)
        /\ arg # <<>>
        /\ arg[1] = Slash
        /\ (Len(arg) = 1 \/ arg[2] # Slash)) =>
           /\ result.ok
           /\ result.val.uri = <<Scheme, client.uri[2]>> \o arg

C6_Witness ==
    /\ op = "req"
    /\ IsRootBase(client.uri)
    /\ Len(client.uri) = 3
    /\ Len(arg) = 3
    /\ arg[1] = Slash
    /\ arg[2] # Slash
    /\ result.ok

\* C7: a timeout or gzip call that succeeds leaves a transport built with the
\* stored timeout and compression, the one just set and the other as it was;
\* a call that fails leaves the transport as it was; until the next such call
\* the transport stays, and every request is sent with it.
C7_RequestsUseTheRebuiltTransport ==
    [][ /\ (op' \in {"gzip", "timeout"} /\ result'.ok) =>
              /\ client'._client =
                    [gzip |-> client'._gzip, timeout |-> client'._timeout]
              /\ op' = "gzip" =>
                    (client'._gzip = arg' /\ client'._timeout = client._timeout)
              /\ op' = "timeout" =>
                    (client'._timeout = arg' /\ client'._gzip = client._gzip)
        /\ (op' \in {"gzip", "timeout"} /\ ~result'.ok) =>
              client'._client = client._client
        /\ op' \notin {"gzip", "timeout"} =>
              /\ client'._client = client._client
              /\ \A i \in DOMAIN exchanges' :
                    exchanges'[i].request.transport = client._client
      ]_vars

C7_Witness ==
    /\ op = "db"
    /\ Len(exchanges) = 2
    /\ Req_(1).transport = [gzip |-> FALSE, timeout |-> MaxTimeout]
    /\ Req_(2).transport = [gzip |-> FALSE, timeout |-> MaxTimeout]

\* C8: when the body of the DELETE response decodes as an envelope,
\* destroy_database (Client::destroy_db) succeeds, whatever the status, and
\* returns true exactly when the envelope holds ok: true.
C8_DestroyReturnsOkMember ==
    (/\ op = "destroy_db"
     /\ exchanges # <<>>
     /\ ~Rep_(1).fail
     /\ Rep_(1).decodes) =>
        /\ result.ok
        /\ result.val = (Rep_(1).ok = Some(TRUE))

C8_Witness ==
    /\ op = "destroy_db"
    /\ exchanges # <<>>
    /\ ~Rep_(1).fail
    /\ Rep_(1).decodes
    /\ Rep_(1).status = 404
    /\ Rep_(1).ok = None
    /\ result.ok
    /\ result.val = FALSE

\* C9: when open_database cannot build the path it sends nothing and
\* returns the error; when the HEAD gets no response it returns the error
\* and sends no PUT; a PUT is sent only after a HEAD answered with a status
\* other than 200.
C9_OpenPropagatesHeadFailure ==
    op = "db" =>
        /\ ~Url_parse(client.uri).ok => exchanges = <<>>
        /\ exchanges = <<>> => (~result.ok /\ result.err = "url::ParseError")
        /\ (exchanges # <<>> /\ Rep_(1).fail) =>
              /\ ~result.ok
              /\ result.err = "reqwest::Error"
              /\ Len(exchanges) = 1
              /\ Req_(1).method = "HEAD"
        /\ Puts # {} => HeadAnswered(IsNot200)

C9_Witness ==
    /\ op = "db"
    /\ Len(exchanges) = 1
    /\ Rep_(1).fail
    /\ ~result.ok

Setters == {"set_uri", "set_prefix", "gzip", "timeout"}

====
